---- MODULE Spec2Model ----
(***************************************************************************)
(* Model of media_theme_processor.py (MediaBackdropProcessor): the         *)
(* per-folder artifact guard, candidate selection, clip planning, encode   *)
(* execution and the run_once / daemon loop.                               *)
(*                                                                         *)
(* Durations and offsets are whole seconds; the planner's comparisons      *)
(* 0.1*D and 0.5*D are carried out in tenths of a second (D and 5*D), so   *)
(* that they are exact.  File and directory names are tuples of            *)
(* one-character strings so that lower(), substring and ordering are       *)
(* computed, not assumed.                                                  *)
(***************************************************************************)
EXTENDS Integers, Sequences, FiniteSets, TLC

\* ------------------------------------------------------------------ bounds
MaxPasses == 2

\* --------------------------------------------------------------- constants
MIN_DURATION == 60

PLACEHOLDER_SUFFIX == ".failed"

VIDEO_EXTS == { <<".","m","k","v">>, <<".","m","p","4">>, <<".","a","v","i">>,
                <<".","m","o","v">>, <<".","w","m","v">>, <<".","f","l","v">>,
                <<".","w","e","b","m">>, <<".","m","4","v">> }

\* ----------------------------------------------------------- text helpers
\* Characters in ASCII order (the subset the library names use).
Alphabet == <<" ", ".", "0", "1", "2", "3", "4", "5", "6", "7", "8", "9",
              "A", "B", "C", "D", "E", "F", "G", "H", "I", "J", "K", "L", "M",
              "N", "O", "P", "Q", "R", "S", "T", "U", "V", "W", "X", "Y", "Z",
              "a", "b", "c", "d", "e", "f", "g", "h", "i", "j", "k", "l", "m",
              "n", "o", "p", "q", "r", "s", "t", "u", "v", "w", "x", "y", "z">>

Ord(c) == CHOOSE i \in 1..Len(Alphabet) : Alphabet[i] = c

LowerChar(c) == IF Ord(c) \in 13..38 THEN Alphabet[Ord(c) + 26] ELSE c

\* str.lower()
Lower(s) == [i \in 1..Len(s) |-> LowerChar(s[i])]

\* sub in s
Contains(s, sub) ==
    \E i \in 0..(Len(s) - Len(sub)) :
        \A j \in 1..Len(sub) : s[i + j] = sub[j]

\* Path.suffix: from the last dot of the name, "" when there is none or when
\* the only dot is the first character
Suffix(name) ==
    LET dots == {i \in 2..Len(name) : name[i] = "."}
    IN  IF dots = {} \/ name[Len(name)] = "." THEN <<>>
        ELSE LET k == CHOOSE i \in dots : \A j \in dots : j <= i
             IN  SubSeq(name, k, Len(name))

\* s < t for str
StrLess(s, t) ==
    \E k \in 1..(Len(t)) :
        /\ \A j \in 1..(k - 1) : j <= Len(s) /\ s[j] = t[j]
        /\ \/ k = Len(s) + 1
           \/ k <= Len(s) /\ Ord(s[k]) < Ord(t[k])

\* p < q for Path: the tuples of path parts compare lexicographically
PathLess(p, q) ==
    \E k \in 1..(Len(q)) :
        /\ \A j \in 1..(k - 1) : j <= Len(p) /\ p[j] = q[j]
        /\ \/ k = Len(p) + 1
           \/ k <= Len(p) /\ StrLess(p[k], q[k])

\* sorted(S) for a set of file records, by path
RECURSIVE SortedByPath(_)
SortedByPath(S) ==
    IF S = {} THEN <<>>
    ELSE LET m == CHOOSE x \in S : \A y \in S \ {x} : PathLess(x.path, y.path)
         IN  <<m>> \o SortedByPath(S \ {m})

\* the elements of a sequence that satisfy a test, in order
RECURSIVE SelectNames(_, _)
SelectNames(seq, keep) ==
    IF seq = <<>> THEN <<>>
    ELSE (IF Head(seq) \in keep THEN <<Head(seq)>> ELSE <<>>)
         \o SelectNames(Tail(seq), keep)

\* --------------------------------------------------- discovery helpers
\* A folder's tree: dirs is the sequence of its immediate subdirectories in
\* the order iterdir() enumerates them; files is the set of files below it,
\* each [path (parts relative to the folder), size, dur, codec].
NoVideo == [path |-> <<>>, size |-> 0, dur |-> 0, codec |-> <<>>]

FileName(v) == v.path[Len(v.path)]

\* _find_videos(folder / prefix): rglob, filter on the lower-cased suffix, sort
FindVideos(tree, prefix) ==
    SortedByPath({v \in tree.files :
                     /\ Len(v.path) > Len(prefix)
                     /\ SubSeq(v.path, 1, Len(prefix)) = prefix
                     /\ Lower(Suffix(FileName(v))) \in VIDEO_EXTS})

\* variant: the last element of maximal size
RECURSIVE MaxBySizeLast(_)
MaxBySizeLast(vids) ==
    IF Len(vids) = 1 THEN vids[1]
    ELSE LET r == MaxBySizeLast(Tail(vids))
         IN  IF vids[1].size > r.size THEN vids[1] ELSE r

\* max(vids, key=size): the first element of maximal size
RECURSIVE MaxBySize(_)
MaxBySize(vids) ==
    IF Len(vids) = 1 THEN vids[1]
    ELSE LET r == MaxBySize(Tail(vids))
         IN  IF vids[1].size >= r.size THEN vids[1] ELSE r

\* [d for d in show.iterdir() if d.is_dir() and "season" in d.name.lower()]
Seasons(tree) ==
    SelectNames(tree.dirs,
                {d \in {tree.dirs[i] : i \in 1..Len(tree.dirs)} :
                    Contains(Lower(d), <<"s","e","a","s","o","n">>)})

IsSeason1(d) ==
    \/ Contains(d, <<"0","1">>)
    \/ Contains(Lower(d), <<"s","e","a","s","o","n"," ","1">>)

\* next((d for d in seasons if ...), None) or (seasons[0] if seasons else None)
\* <<>> stands for None
Season1(tree) ==
    LET seasons == Seasons(tree)
        hits    == {i \in 1..Len(seasons) : IsSeason1(seasons[i])}
    IN  IF hits # {}
          THEN <<seasons[CHOOSE i \in hits : \A j \in hits : i <= j]>>
          ELSE IF seasons # <<>> THEN <<seasons[1]>> ELSE <<>>

IsEpisode1(v) ==
    \/ Contains(Lower(FileName(v)), <<"e","0","1">>)
    \/ Contains(Lower(FileName(v)), <<"e","p","i","s","o","d","e"," ","1">>)

\* _find_first_ep(show)
FindFirstEp(tree) ==
    LET vids == FindVideos(tree, Season1(tree))
        hits == {i \in 1..Len(vids) : IsEpisode1(vids[i])}
    IN  IF vids = <<>> THEN NoVideo
        ELSE IF hits # {}
          THEN vids[CHOOSE i \in hits : \A j \in hits : i <= j]
          ELSE vids[1]

\* the source _process selects (lines 193-195)
SelectSource(tree, is_tv) ==
    IF is_tv THEN FindFirstEp(tree)
    ELSE IF FindVideos(tree, <<>>) # <<>> THEN MaxBySize(FindVideos(tree, <<>>))
         ELSE NoVideo

\* ------------------------------------------------------------ shlex.split
\* Whitespace-separated words; ' and " quote; an unclosed quote is a
\* ValueError (ok = FALSE).
RECURSIVE ShlexScan(_, _, _, _, _, _)
ShlexScan(s, i, tok, inTok, q, out) ==
    IF i > Len(s)
      THEN IF q # "" THEN [ok |-> FALSE, tokens |-> <<>>]
           ELSE [ok |-> TRUE,
                 tokens |-> IF inTok THEN Append(out, tok) ELSE out]
    ELSE IF q # ""
      THEN IF s[i] = q THEN ShlexScan(s, i + 1, tok, TRUE, "", out)
           ELSE ShlexScan(s, i + 1, Append(tok, s[i]), TRUE, q, out)
    ELSE IF s[i] = " "
      THEN ShlexScan(s, i + 1, <<>>, FALSE, "",
                     IF inTok THEN Append(out, tok) ELSE out)
    ELSE IF s[i] \in {"'", "\""}
      THEN ShlexScan(s, i + 1, tok, TRUE, s[i], out)
    ELSE ShlexScan(s, i + 1, Append(tok, s[i]), TRUE, "", out)

ShlexSplit(s) == ShlexScan(s, 1, <<>>, FALSE, "", <<>>)

\* ------------------------------------------------------------ the library
Roots == <<"movies", "tv", "anime">>

IsTv(root) == root # "movies"

Folders == {"m1", "m2", "t1", "a1"}

MKV(n) == <<n, ".", "m", "k", "v">>

H264 == <<"h","2","6","4">>

Season(n) == <<"S","e","a","s","o","n"," ","0",n>>

OneVideo(D, c) ==
    [dirs  |-> <<>>,
     files |-> {[path |-> <<MKV("a")>>, size |-> 2, dur |-> D, codec |-> c]}]

TreeEmpty ==
    [dirs  |-> <<>>,
     files |-> {[path |-> <<<<"a",".","n","f","o">>>>, size |-> 1, dur |-> 0,
                 codec |-> <<>>]}]

\* three videos, two of them of the largest size
TreeMovie ==
    [dirs  |-> <<<<"e","x","t","r","a","s">>>>,
     files |-> {[path |-> <<MKV("a")>>, size |-> 1, dur |-> 30, codec |-> H264],
                [path |-> <<MKV("c")>>, size |-> 3, dur |-> 30, codec |-> H264],
                [path |-> <<<<"b",".","M","K","V">>>>, size |-> 3, dur |-> 70,
                 codec |-> H264],
                [path |-> <<<<"e","x","t","r","a","s">>, MKV("z")>>, size |-> 2,
                 dur |-> 30, codec |-> H264]}]

\* seasons 02 and 03 only, enumerated by the file system as 03, extras, 02
TreeShow ==
    [dirs  |-> <<Season("3"), <<"e","x","t","r","a","s">>, Season("2")>>,
     files |-> {[path |-> <<Season("2"), MKV("x")>>, size |-> 1, dur |-> 70,
                 codec |-> H264],
                [path |-> <<Season("3"), MKV("y")>>, size |-> 1, dur |-> 30,
                 codec |-> H264]}]

\* a season 1 in upper case with two episodes, and a later season
TreeShowS1 ==
    [dirs  |-> <<Season("2"), <<"S","E","A","S","O","N"," ","1">>>>,
     files |-> {[path |-> <<Season("2"), MKV("x")>>, size |-> 1, dur |-> 30,
                 codec |-> H264],
                [path |-> <<<<"S","E","A","S","O","N"," ","1">>,
                            <<"S","1","E","0","2",".","m","k","v">>>>,
                 size |-> 1, dur |-> 30, codec |-> H264],
                [path |-> <<<<"S","E","A","S","O","N"," ","1">>,
                            <<"S","1","E","0","1",".","m","k","v">>>>,
                 size |-> 1, dur |-> 70, codec |-> H264]}]

\* the chosen season is empty although the show folder itself has a video
TreeShowEmptySeason ==
    [dirs  |-> <<Season("1")>>,
     files |-> {[path |-> <<MKV("a")>>, size |-> 1, dur |-> 70, codec |-> H264]}]

Durations == {0, 30, 59, 60, 70}

Codecs == {H264, <<"a","v","1">>, <<"A","V","1">>}

Trees ==
    {TreeEmpty, TreeMovie, TreeShow, TreeShowS1, TreeShowEmptySeason}
    \cup {OneVideo(D, H264) : D \in Durations}

PlanTrees == {OneVideo(D, c) : D \in {59, 60, 70}, c \in Codecs}

ClipLens == {5, 24, 25}

HwPre == <<"-","h","w","a","c","c","e","l"," ","c","u","d","a">>

BadQuote == <<"-","x"," ","'","y">>

ExtraArgs == <<"-","m","o","v","f","l","a","g","s"," ","\"","+","f","a","s","t","s","t","a","r","t","\"">>

PreStrings == {<<>>, HwPre, BadQuote}

ExtraStrings == {<<>>, ExtraArgs, BadQuote}

\* ------------------------------------------------------------------ state
VARIABLES
    cfg,          \* the constructor arguments (force, clip_len, ffmpeg_pre, ...)
    rootExists,   \* root -> does the directory exist
    lib,          \* root -> the folders iterdir() finds under it
    tree,         \* folder -> what lies below it
    dst,          \* folder -> backdrops/backdrop.mp4: "absent", "valid", "partial"
    placeholder,  \* folder -> backdrops/backdrop.mp4.failed exists
    bdir,         \* folder -> the backdrops directory exists
    pc,           \* where the single thread of control is
    pass,         \* number of run_once calls started
    rootIdx,      \* run_once: index into roots
    valid,        \* run_once: valid
    pending,      \* run_once: folders of the current root not yet visited
    cur,          \* the folder _process is working on
    loc,          \* _extract_clip's locals: src, total, start, codec, ...
    entry,        \* the two files as _process found them
    result,       \* how the current _process call ended
    last,         \* folder -> how its latest finished call ended
    prior,        \* last[cur] as it was when the current call began
    calls,        \* what the current call did: selections, probes, encodes,
                  \* how _touch_placeholder and the encoder ended
    faults,       \* what went wrong in the current call: where it raised, and
                  \* whether the duration probe and the codec probe failed
    handed,       \* folders handed to _process in this pass
    raised        \* folders whose call raised in this pass

fsVars   == <<rootExists, lib, tree, dst, placeholder, bdir>>
passVars == <<pass, rootIdx, valid, pending, handed, raised>>
callVars == <<cur, loc, entry, result, last, prior, calls, faults>>
vars     == <<cfg, fsVars, pc, passVars, callVars>>

NoLoc ==
    [src |-> NoVideo, total |-> 0, start |-> 0, codec |-> <<>>,
     use_hwaccel |-> FALSE, ff_cmd |-> <<>>, ret |-> "none"]

NoCalls == [selects |-> 0, probes |-> 0, encodes |-> 0, touch |-> "none",
            encode |-> "none"]

NoFaults == [exc |-> "none", dur |-> "none", codec |-> "none"]

Exists(f) == dst[f] # "absent"

\* variant: the shows root is put first
RootListShowsFirst ==
    IF cfg.anime_path THEN <<"tv", "movies", "anime">> ELSE <<"tv", "movies">>

\* roots as run_once builds it (lines 203-204)
RootList ==
    IF cfg.anime_path THEN Roots ELSE SubSeq(Roots, 1, 2)

\* (1280, 720) if resolution == 720 else (1920, 1080)   (line 59)
Width  == IF cfg.resolution = 720 THEN 1280 ELSE 1920
Height == IF cfg.resolution = 720 THEN 720 ELSE 1080

\* ---------------------------------------------------------- initial states
\* crf, preset, timeout and delay only parametrise the external tool and the
\* sleeps; they are not part of the state.
DefaultCfg ==
    [force |-> FALSE, clip_len |-> 5, resolution |-> 720, include_audio |-> TRUE,
     ffmpeg_extra |-> <<>>, ffmpeg_pre |-> <<>>, anime_path |-> TRUE,
     daemon |-> TRUE]

Artifacts == {"absent", "valid", "partial"} \X BOOLEAN

InitCommon ==
    /\ pc = "main"
    /\ pass = 0
    /\ rootIdx = 1
    /\ valid = FALSE
    /\ pending = {}
    /\ cur = "m1"
    /\ loc = NoLoc
    /\ entry = [dst |-> "absent", placeholder |-> FALSE]
    /\ result = "none"
    /\ last = [f \in Folders |-> "none"]
    /\ prior = "none"
    /\ calls = NoCalls
    /\ faults = NoFaults
    /\ handed = {}
    /\ raised = {}
    /\ bdir = [f \in Folders |-> Exists(f) \/ placeholder[f]]

\* one folder, in the movies or in the shows root, in every artifact state
\* and with every tree of the catalogue
InitFolder ==
    /\ \E fc \in BOOLEAN : cfg = [DefaultCfg EXCEPT !.force = fc]
    /\ rootExists = [r \in {"movies", "tv", "anime"} |-> TRUE]
    /\ \E f \in {"m1", "t1"}, t \in Trees, a \in Artifacts :
          /\ lib = [r \in {"movies", "tv", "anime"} |->
                       IF (r = "movies" /\ f = "m1") \/ (r = "tv" /\ f = "t1")
                         THEN {f} ELSE {}]
          /\ tree = [g \in Folders |-> IF g = f THEN t ELSE TreeEmpty]
          /\ dst = [g \in Folders |-> IF g = f THEN a[1] ELSE "absent"]
          /\ placeholder = [g \in Folders |-> IF g = f THEN a[2] ELSE FALSE]
    /\ InitCommon

\* one movie folder without artifacts, every planner configuration, single run
InitPlan ==
    /\ \E L \in ClipLens, pre \in PreStrings, ex \in ExtraStrings, au \in BOOLEAN :
          cfg = [DefaultCfg EXCEPT !.clip_len = L, !.ffmpeg_pre = pre,
                                   !.ffmpeg_extra = ex, !.include_audio = au,
                                   !.anime_path = FALSE, !.daemon = FALSE]
    /\ rootExists = [r \in {"movies", "tv", "anime"} |-> r = "movies"]
    /\ lib = [r \in {"movies", "tv", "anime"} |->
                 IF r = "movies" THEN {"m1"} ELSE {}]
    /\ \E t \in PlanTrees : tree = [g \in Folders |-> IF g = "m1" THEN t ELSE TreeEmpty]
    /\ dst = [g \in Folders |-> "absent"]
    /\ placeholder = [g \in Folders |-> FALSE]
    /\ InitCommon

\* three roots, four folders, force off
InitLibrary ==
    /\ \E an \in BOOLEAN :
          cfg = [DefaultCfg EXCEPT !.anime_path = an, !.clip_len = 25]
    /\ rootExists \in [{"movies", "tv", "anime"} -> BOOLEAN]
    /\ lib = [r \in {"movies", "tv", "anime"} |->
                 IF r = "movies" THEN {"m1", "m2"}
                 ELSE IF r = "tv" THEN {"t1"} ELSE {"a1"}]
    /\ tree = [g \in Folders |->
                 IF g = "m1" THEN TreeMovie
                 ELSE IF g = "m2" THEN OneVideo(30, H264)
                 ELSE IF g = "t1" THEN TreeShow ELSE TreeEmpty]
    /\ \E a \in {"absent", "valid"} :
          dst = [g \in Folders |-> IF g = "m1" THEN a ELSE "absent"]
    /\ placeholder = [g \in Folders |-> FALSE]
    /\ InitCommon

Init == InitFolder \/ InitPlan \/ InitLibrary

\* --------------------------------------------------------- main, run_once
\* main: proc.run_once() (lines 251, 255) and the head of run_once (203-206)
RunOnce ==
    /\ pc = "main"
    /\ pass < MaxPasses
    /\ pc' = "roots"
    /\ pass' = pass + 1
    /\ rootIdx' = 1
    /\ valid' = FALSE
    /\ pending' = {}
    /\ handed' = {}
    /\ raised' = {}
    /\ UNCHANGED <<cfg, fsVars, callVars>>

\* for root, is_tv in roots: if root and root.exists()  -- false branch
SkipRoot ==
    /\ pc = "roots"
    /\ rootIdx <= Len(RootList)
    /\ ~rootExists[RootList[rootIdx]]
    /\ rootIdx' = rootIdx + 1
    /\ UNCHANGED <<cfg, fsVars, pc, pass, valid, pending, handed, raised, callVars>>

\* ... true branch: valid = True, start iterating the root's directories
EnterRoot ==
    /\ pc = "roots"
    /\ rootIdx <= Len(RootList)
    /\ rootExists[RootList[rootIdx]]
    /\ valid' = TRUE
    /\ pending' = lib[RootList[rootIdx]]
    /\ pc' = "iter"
    /\ UNCHANGED <<cfg, fsVars, pass, rootIdx, handed, raised, callVars>>

\* the inner for loop is exhausted
LeaveRoot ==
    /\ pc = "iter"
    /\ pending = {}
    /\ rootIdx' = rootIdx + 1
    /\ pc' = "roots"
    /\ UNCHANGED <<cfg, fsVars, pass, valid, pending, handed, raised, callVars>>

\* try: self._process(f, is_tv)  -- the next directory in enumeration order
CallProcess ==
    /\ pc = "iter"
    /\ \E f \in pending :
          /\ pending' = pending \ {f}
          /\ cur' = f
          /\ handed' = handed \cup {f}
          /\ entry' = [dst |-> dst[f], placeholder |-> placeholder[f]]
          /\ prior' = last[f]
    /\ result' = "running"
    /\ calls' = NoCalls
    /\ faults' = NoFaults
    /\ loc' = NoLoc
    /\ pc' = "guard"
    /\ UNCHANGED <<cfg, fsVars, pass, rootIdx, valid, raised, last>>

\* variant: a pass that found no root ends the process
AfterPassStopsWhenEmpty(daemon, ok) == IF daemon /\ ok THEN "sleep" ELSE "exit"

\* where main goes when run_once returns (lines 215, 247-255): `valid` only
\* decides whether the error is logged
AfterPass(daemon, ok) == IF daemon THEN "sleep" ELSE "exit"

\* the outer loop is exhausted (line 215); main sleeps or returns
FinishPass ==
    /\ pc = "roots"
    /\ rootIdx > Len(RootList)
    /\ pc' = AfterPass(cfg.daemon, valid)
    /\ UNCHANGED <<cfg, fsVars, passVars, callVars>>

\* time.sleep(a.interval), then the next iteration of while True
Sleep ==
    /\ pc = "sleep"
    /\ pc' = "main"
    /\ UNCHANGED <<cfg, fsVars, passVars, callVars>>

\* the library changes between two passes: a root directory is created
RootAppears ==
    /\ pc = "main"
    /\ pass > 0
    /\ pass < MaxPasses
    /\ \E r \in {"movies", "tv", "anime"} :
          /\ ~rootExists[r]
          /\ rootExists' = [rootExists EXCEPT ![r] = TRUE]
    /\ UNCHANGED <<cfg, lib, tree, dst, placeholder, bdir, pc, passVars, callVars>>

\* ------------------------------------------------------ leaving _process
\* variant: no except clause, the exception leaves run_once
ExceptTargetPropagates == "crashed"

\* where control goes when _process raises: the except clause of run_once
\* logs and the for loop goes on
ExceptTarget == "iter"

\* _process returns normally with outcome r; ret is what _extract_clip
\* returned and total the duration it probed
Return(r, ret, total) ==
    /\ result' = r
    /\ last' = [last EXCEPT ![cur] = r]
    /\ loc' = [NoLoc EXCEPT !.src = loc.src, !.total = total, !.ret = ret]
    /\ pc' = "iter"
    /\ raised' = raised

\* an exception leaves _process
Raise ==
    /\ result' = "raised"
    /\ last' = [last EXCEPT ![cur] = "raised"]
    /\ loc' = NoLoc
    /\ pc' = ExceptTarget
    /\ raised' = raised \cup {cur}

\* variant: the directory is made but the marker is never touched
TouchPlaceholderMkdirOnly(f, t) ==
    /\ bdir' = [bdir EXCEPT ![f] = @ \/ t # "mkdir_fails"]
    /\ placeholder' = placeholder

\* _touch_placeholder(p): mkdir(parents, exist_ok) then touch(exist_ok);
\* t says how far it got; any exception is logged and swallowed
TouchOutcomes(f) == {"ok", "touch_fails"} \cup (IF bdir[f] THEN {} ELSE {"mkdir_fails"})

TouchPlaceholder(f, t) ==
    /\ bdir' = [bdir EXCEPT ![f] = @ \/ t # "mkdir_fails"]
    /\ placeholder' = [placeholder EXCEPT ![f] = @ \/ t = "ok"]

\* ---------------------------------------------------------------- _process
\* variant: the guard looks at the backdrop only
SkipGuardIgnoresPlaceholder(force, dstExists, phExists) == ~force /\ dstExists

\* not self.force and (dst.exists() or placeholder.exists())   (line 188)
SkipGuard(force, dstExists, phExists) == ~force /\ (dstExists \/ phExists)

\* variant: force removes the placeholder only
UnlinkedPlaceholderOnly(f) == [dst |-> dst[f], placeholder |-> FALSE]

\* variant: force removes the backdrop only
UnlinkedArtifactOnly(f) == [dst |-> "absent", placeholder |-> placeholder[f]]

\* dst.unlink(missing_ok=True); placeholder.unlink(missing_ok=True)  (line 191)
Unlinked(f) == [dst |-> "absent", placeholder |-> FALSE]

\* lines 186-189: the artifact or the placeholder is there and force is off
GuardSkip ==
    /\ pc = "guard"
    /\ SkipGuard(cfg.force, Exists(cur), placeholder[cur])
    /\ Return("skipped", "none", 0)
    /\ UNCHANGED <<cfg, fsVars, pass, rootIdx, valid, pending, handed,
                   cur, entry, prior, faults, calls>>

\* lines 188-191: go on, after deleting both files when force is set
GuardProceed ==
    /\ pc = "guard"
    /\ ~SkipGuard(cfg.force, Exists(cur), placeholder[cur])
    /\ IF cfg.force
         THEN /\ dst' = [dst EXCEPT ![cur] = Unlinked(cur).dst]
              /\ placeholder' = [placeholder EXCEPT ![cur] = Unlinked(cur).placeholder]
         ELSE UNCHANGED <<dst, placeholder>>
    /\ pc' = "select"
    /\ UNCHANGED <<cfg, rootExists, lib, tree, bdir, passVars, callVars>>

\* exists() or unlink() raises an OSError other than "missing"; with force the
\* first unlink may already have removed the artifact
GuardRaise ==
    /\ pc = "guard"
    /\ \E gone \in BOOLEAN :
          /\ gone => cfg.force
          /\ dst' = [dst EXCEPT ![cur] = IF gone THEN "absent" ELSE @]
    /\ faults' = [faults EXCEPT !.exc = "guard"]
    /\ Raise
    /\ UNCHANGED <<cfg, rootExists, lib, tree, placeholder, bdir, pass, rootIdx,
                   valid, pending, handed, cur, entry, prior, calls>>

\* lines 193-196: a source is found
SelectFound ==
    /\ pc = "select"
    /\ SelectSource(tree[cur], IsTv(RootList[rootIdx])) # NoVideo
    /\ loc' = [loc EXCEPT !.src = SelectSource(tree[cur], IsTv(RootList[rootIdx]))]
    /\ calls' = [calls EXCEPT !.selects = @ + 1]
    /\ pc' = "probe"
    /\ UNCHANGED <<cfg, fsVars, passVars, cur, entry, result, last, prior, faults>>

\* lines 196-197: no source; placeholder, return
SelectNone ==
    /\ pc = "select"
    /\ SelectSource(tree[cur], IsTv(RootList[rootIdx])) = NoVideo
    /\ \E t \in TouchOutcomes(cur) :
          /\ TouchPlaceholder(cur, t)
          /\ calls' = [calls EXCEPT !.selects = @ + 1, !.touch = t]
    /\ Return("nosrc", "none", 0)
    /\ UNCHANGED <<cfg, rootExists, lib, tree, dst, pass, rootIdx, valid, pending,
                   handed, cur, entry, prior, faults>>

\* iterdir(), rglob() or stat() raises
SelectRaise ==
    /\ pc = "select"
    /\ calls' = [calls EXCEPT !.selects = @ + 1]
    /\ faults' = [faults EXCEPT !.exc = "discovery"]
    /\ Raise
    /\ UNCHANGED <<cfg, fsVars, pass, rootIdx, valid, pending, handed,
                   cur, entry, prior>>

\* ----------------------------------------------------------- _extract_clip
\* variant: the safe-range test is missing
PlannerVerdictNoRange(total, L) ==
    IF total < MIN_DURATION THEN "tooshort" ELSE "ok"

\* lines 99-104, in tenths of a second: start_safe = total * 0.1 is `total`
\* tenths, end_safe = total * 0.5 is 5 * total tenths
PlannerVerdict(total, L) ==
    IF total < MIN_DURATION THEN "tooshort"
    ELSE IF 5 * total - total < 10 * L THEN "insufficient"
    ELSE "ok"

\* random.uniform(a, b) is a + (b - a) * random(), a value between its two
\* arguments whichever is the larger: both ends and every whole second between
Uniform(a, b) ==
    {s \in (IF a <= b THEN a ELSE b)..(IF a <= b THEN b ELSE a) :
        s = a \/ s = b \/ s % 10 = 0}

\* variant: the clip length is not taken off the upper end
StartChoicesWholeWindow(total, L) == Uniform(total, 5 * total)

\* random.uniform(start_safe, end_safe - self.clip_len), in tenths of a second
StartChoices(total, L) == Uniform(total, 5 * total - 10 * L)

\* variant: the codec is not looked at
UseHwaccelAnyCodec(pre, codec) == pre # <<>>

\* use_hwaccel = self.ffmpeg_pre and codec != "av1"   (line 110)
UseHwaccel(pre, codec) == pre # <<>> /\ codec # <<"a","v","1">>

\* lines 112-122
VfChain(hw) ==
    IF hw THEN <<"scale_cuda", Width, Height>>
    ELSE <<"format=yuv420p", "scale", Width, Height, "pad", Width, Height>>

\* lines 124-148: the argument list, by position
FfCmd(src, start, hw, codec) ==
    [pre   |-> IF hw THEN ShlexSplit(cfg.ffmpeg_pre).tokens ELSE <<>>,
     ss    |-> start,
     i     |-> src.path,
     t     |-> cfg.clip_len,
     vf    |-> VfChain(hw),
     audio |-> IF cfg.include_audio THEN <<"-c:a", "aac">> ELSE <<"-an">>,
     extra |-> IF cfg.ffmpeg_extra # <<>> /\ ShlexSplit(cfg.ffmpeg_extra).ok
                 THEN ShlexSplit(cfg.ffmpeg_extra).tokens ELSE <<>>,
     out   |-> cur]

\* variant: a failed probe is not turned into 0.0
VideoDurationIgnoresFailure(src, ok) == src.dur

\* _video_duration: the probed duration, 0.0 when ffprobe or the parse fails
VideoDuration(src, ok) == IF ok THEN src.dur ELSE 0

\* _codec_name: the lower-cased codec name, "" when ffprobe fails
CodecName(src, ok) == IF ok THEN Lower(src.codec) ELSE <<>>

\* lines 98-104: the duration probe, rejected
ProbeReject ==
    /\ pc = "probe"
    /\ \E ok \in BOOLEAN :
          LET v == PlannerVerdict(VideoDuration(loc.src, ok), cfg.clip_len)
          IN  /\ v # "ok"
              /\ faults' = [faults EXCEPT !.dur = IF ok THEN "ok" ELSE "failed"]
              /\ Return(v, "False", VideoDuration(loc.src, ok))
    /\ calls' = [calls EXCEPT !.probes = @ + 1]
    /\ UNCHANGED <<cfg, fsVars, pass, rootIdx, valid, pending, handed,
                   cur, entry, prior>>

\* lines 98-104: the duration probe, accepted
ProbeAccept ==
    /\ pc = "probe"
    /\ \E ok \in BOOLEAN :
          /\ PlannerVerdict(VideoDuration(loc.src, ok), cfg.clip_len) = "ok"
          /\ faults' = [faults EXCEPT !.dur = IF ok THEN "ok" ELSE "failed"]
          /\ loc' = [loc EXCEPT !.total = VideoDuration(loc.src, ok)]
    /\ calls' = [calls EXCEPT !.probes = @ + 1]
    /\ pc' = "plan"
    /\ UNCHANGED <<cfg, fsVars, passVars, cur, entry, result, last, prior>>

\* lines 106-148: start offset, mkdir, codec probe, pipeline, argument list
PlanClip ==
    /\ pc = "plan"
    /\ \E start \in StartChoices(loc.total, cfg.clip_len), cok \in BOOLEAN :
          LET codec == CodecName(loc.src, cok)
              hw    == UseHwaccel(cfg.ffmpeg_pre, codec)
          IN  /\ hw => ShlexSplit(cfg.ffmpeg_pre).ok
              /\ faults' = [faults EXCEPT !.codec = IF cok THEN "ok" ELSE "failed"]
              /\ loc' = [loc EXCEPT !.start = start, !.codec = codec,
                                    !.use_hwaccel = hw,
                                    !.ff_cmd = FfCmd(loc.src, start, hw, codec)]
    /\ bdir' = [bdir EXCEPT ![cur] = TRUE]
    /\ calls' = [calls EXCEPT !.probes = @ + 1]
    /\ pc' = "encode"
    /\ UNCHANGED <<cfg, rootExists, lib, tree, dst, placeholder, passVars,
                   cur, entry, result, last, prior>>

\* line 107: dst.parent.mkdir raises
PlanMkdirRaise ==
    /\ pc = "plan"
    /\ ~bdir[cur]
    /\ faults' = [faults EXCEPT !.exc = "mkdir"]
    /\ Raise
    /\ UNCHANGED <<cfg, fsVars, pass, rootIdx, valid, pending, handed,
                   cur, entry, prior, calls>>

\* line 126: shlex.split(self.ffmpeg_pre) raises ValueError
PlanPreRaise ==
    /\ pc = "plan"
    /\ \E cok \in BOOLEAN :
          /\ UseHwaccel(cfg.ffmpeg_pre, CodecName(loc.src, cok))
          /\ ~ShlexSplit(cfg.ffmpeg_pre).ok
          /\ faults' = [faults EXCEPT !.exc = "shlex",
                                      !.codec = IF cok THEN "ok" ELSE "failed"]
    /\ bdir' = [bdir EXCEPT ![cur] = TRUE]
    /\ calls' = [calls EXCEPT !.probes = @ + 1]
    /\ Raise
    /\ UNCHANGED <<cfg, rootExists, lib, tree, dst, placeholder, pass, rootIdx,
                   valid, pending, handed, cur, entry, prior>>

\* how subprocess.run ends: "ok" (exit 0), "timeout" (TimeoutExpired),
\* "error" (CalledProcessError), "fault" (any other Exception)
EncodeOutcomes == {"ok", "timeout", "error", "fault"}

\* variant: a timeout is reported as success
EncodeRetTimeoutTrue(out) == IF out \in {"ok", "timeout"} THEN "True" ELSE "False"

\* what _extract_clip returns after the encoder ended with out (153, 161)
EncodeRet(out) == IF out = "ok" THEN "True" ELSE "False"

\* lines 150-153: the encoder exits with 0
EncodeSuccess ==
    /\ pc = "encode"
    /\ dst' = [dst EXCEPT ![cur] = "valid"]
    /\ calls' = [calls EXCEPT !.encodes = @ + 1, !.encode = "ok"]
    /\ Return("success", EncodeRet("ok"), loc.total)
    /\ UNCHANGED <<cfg, rootExists, lib, tree, placeholder, bdir, pass, rootIdx,
                   valid, pending, handed, cur, entry, prior, faults>>

\* lines 154-161: the encoder fails; what it wrote so far stays on disk
EncodeFailure ==
    /\ pc = "encode"
    /\ \E out \in EncodeOutcomes \ {"ok"}, part \in BOOLEAN, t \in TouchOutcomes(cur) :
          /\ part => out # "fault"
          /\ dst' = [dst EXCEPT ![cur] = IF part THEN "partial" ELSE @]
          /\ TouchPlaceholder(cur, t)
          /\ calls' = [calls EXCEPT !.encodes = @ + 1, !.encode = out, !.touch = t]
          /\ Return("failed", EncodeRet(out), loc.total)
    /\ UNCHANGED <<cfg, rootExists, lib, tree, pass, rootIdx, valid, pending,
                   handed, cur, entry, prior, faults>>

\* the operator interrupts the process while the encoder runs: subprocess.run
\* kills the encoder and re-raises KeyboardInterrupt, which no `except
\* Exception` catches (150-159, 212); main logs it in daemon mode (252-253)
\* and the process ends.  What the encoder wrote so far stays on disk.
Interrupt ==
    /\ pc = "encode"
    /\ \E part \in BOOLEAN :
          dst' = [dst EXCEPT ![cur] = IF part THEN "partial" ELSE @]
    /\ calls' = [calls EXCEPT !.encodes = @ + 1, !.encode = "interrupt"]
    /\ result' = "interrupted"
    /\ last' = [last EXCEPT ![cur] = "interrupted"]
    /\ loc' = [NoLoc EXCEPT !.src = loc.src, !.total = loc.total]
    /\ pc' = "stopped"
    /\ UNCHANGED <<cfg, rootExists, lib, tree, placeholder, bdir, passVars,
                   cur, entry, prior, faults>>

\* the operator starts the program again with the same arguments
Restart ==
    /\ pc = "stopped"
    /\ pass < MaxPasses
    /\ pc' = "main"
    /\ UNCHANGED <<cfg, fsVars, passVars, callVars>>

\* ------------------------------------------------------------ specification
Next ==
    \/ RunOnce
    \/ SkipRoot
    \/ EnterRoot
    \/ LeaveRoot
    \/ CallProcess
    \/ FinishPass
    \/ Sleep
    \/ RootAppears
    \/ GuardSkip
    \/ GuardProceed
    \/ GuardRaise
    \/ SelectFound
    \/ SelectNone
    \/ SelectRaise
    \/ ProbeReject
    \/ ProbeAccept
    \/ PlanClip
    \/ PlanMkdirRaise
    \/ PlanPreRaise
    \/ EncodeSuccess
    \/ EncodeFailure
    \/ Interrupt
    \/ Restart

Spec == Init /\ [][Next]_vars

\* ------------------------------------------------------------------ claims
CallOver == result \notin {"none", "running"}

Working == pc \in {"select", "probe", "plan", "encode"}

\* run_once has returned and main has not yet woken up for the next pass
PassOver ==
    pass > 0 /\ pc \notin {"main", "roots", "iter", "guard", "select", "probe", "plan",
                         "encode", "stopped"}

ExistingFolders == UNION {lib[RootList[i]] : i \in {j \in 1..Len(RootList) : rootExists[RootList[j]]}}

\* C1: with force off, a call that finds the backdrop or the placeholder in
\* place never selects, probes or encodes, never reaches the working steps, and
\* both files stay as the call found them.
C1_SkipIsNoWork ==
    (~cfg.force /\ result # "none" /\ (entry.dst # "absent" \/ entry.placeholder))
        => /\ ~Working
           /\ calls = NoCalls
           /\ dst[cur] = entry.dst
           /\ placeholder[cur] = entry.placeholder

C1_Witness ==
    /\ ~cfg.force
    /\ result = "skipped"
    /\ entry.dst = "absent"
    /\ entry.placeholder
    /\ placeholder[cur]

\* C2: a call that the planner rejected (too short, or safe range smaller than
\* the clip length) ends with the placeholder in place and without an encode.
C2_RejectLeavesPlaceholder ==
    result \in {"tooshort", "insufficient"}
        => placeholder[cur] /\ calls.encodes = 0

\* C3 as stated: a call that found no video made no probe and no encode and
\* the placeholder exists afterwards.
C3_NoSourcePlaceholderExists ==
    result = "nosrc"
        => calls.probes = 0 /\ calls.encodes = 0 /\ placeholder[cur]

\* C3 (amended): a call that found no video made no probe and no encode and
\* called _touch_placeholder; the placeholder exists afterwards whenever that
\* call did not fail.
C3_NoSourceTouches ==
    result = "nosrc"
        => /\ calls.probes = 0
           /\ calls.encodes = 0
           /\ calls.touch # "none"
           /\ (calls.touch = "ok" => placeholder[cur])

C3_Witness ==
    /\ result = "nosrc"
    /\ ~entry.placeholder
    /\ calls.touch = "ok"
    /\ placeholder[cur]
    /\ tree[cur] = TreeShowEmptySeason

\* C4: with force off, once a call on a folder ended in success, rejection, no
\* source or a failed encode, every later call on that folder probes nothing
\* and encodes nothing (granting that the placeholder writes went through).
C4_ConvergesToNoWork ==
    (/\ ~cfg.force
     /\ prior \in {"success", "tooshort", "insufficient", "nosrc", "failed"}
     /\ (prior \in {"nosrc", "failed"} => entry.placeholder))
        => calls.probes = 0 /\ calls.encodes = 0

\* C5: with force on, when candidate selection starts, and as long as the call
\* is selecting, probing or planning, neither the backdrop nor the placeholder
\* the call found is there any more.
C5_ForceRemovesBoth ==
    (cfg.force /\ Working)
        => dst[cur] = "absent" /\ ~placeholder[cur]

C5_Witness ==
    /\ cfg.force
    /\ pc = "select"
    /\ calls = NoCalls
    /\ entry.dst = "valid"
    /\ entry.placeholder

\* C6 as stated: after a failed encode _extract_clip returned False and the
\* placeholder exists; after a successful one no placeholder was written.
C6_FailedEncodePlaceholderExists ==
    /\ calls.encode \in {"timeout", "error", "fault"}
          => loc.ret = "False" /\ placeholder[cur]
    /\ calls.encode = "ok" => loc.ret = "True" /\ calls.touch = "none"

\* C6 (amended): after a failed encode (timeout, non-zero exit, other fault)
\* _extract_clip returned False and called _touch_placeholder, so the
\* placeholder exists unless that call failed; after a successful encode it
\* returned True and did not call it.
C6_FailedEncodeTouches ==
    /\ calls.encode \in {"timeout", "error", "fault"}
          => /\ loc.ret = "False"
             /\ result = "failed"
             /\ calls.touch # "none"
             /\ (calls.touch = "ok" => placeholder[cur])
    /\ calls.encode = "ok"
          => loc.ret = "True" /\ result = "success" /\ calls.touch = "none"

C6_Witness ==
    /\ calls.encode = "timeout"
    /\ calls.touch = "ok"
    /\ placeholder[cur]
    /\ loc.ret = "False"

\* C7: when a pass is over, every folder of every existing root was handed to
\* _process in it, whatever was raised on the way.
C7_PassVisitsAll ==
    PassOver => handed = ExistingFolders

C7_Witness ==
    /\ PassOver
    /\ "m1" \in raised
    /\ cur = "a1"
    /\ handed = {"m1", "m2", "t1", "a1"}

\* C8: the encoder is invoked only for a probed duration D with D >= 60 and
\* 0.4*D >= L, and a finished call whose probed duration fails either test was
\* rejected without an encode.
C8_EncodeOnlyWhenPlanned ==
    /\ (pc = "encode" \/ calls.encodes > 0)
          => loc.total >= 60 /\ 4 * loc.total >= 10 * cfg.clip_len
    /\ (CallOver /\ calls.probes > 0 /\ result # "raised"
          /\ (loc.total < 60 \/ 4 * loc.total < 10 * cfg.clip_len))
          => result \in {"tooshort", "insufficient"} /\ calls.encodes = 0

C8_Witness ==
    /\ calls.encodes = 1
    /\ loc.total = 60
    /\ cfg.clip_len = 24

\* C9: a planned start offset lies in [0.1*D, 0.5*D - L] (here in tenths of a
\* second), so that the clip passed to the encoder ends by 0.5*D.
C9_StartInSafeWindow ==
    pc = "encode"
        => /\ loc.start >= loc.total
           /\ loc.start <= 5 * loc.total - 10 * cfg.clip_len
           /\ loc.ff_cmd.ss = loc.start
           /\ loc.ff_cmd.ss + 10 * loc.ff_cmd.t <= 5 * loc.total

C9_Witness ==
    /\ pc = "encode"
    /\ loc.start = 5 * loc.total - 10 * cfg.clip_len
    /\ loc.start > loc.total

\* C10: the hardware pipeline, with the pre-input parameters spliced in, is
\* chosen exactly when the pre-filter string is non-empty and the probed codec
\* is not av1; otherwise the software pipeline without those parameters.
C10_PipelineChoice ==
    pc = "encode"
        => LET hw == cfg.ffmpeg_pre # <<>> /\ loc.codec # <<"a","v","1">>
           IN  /\ hw => /\ loc.ff_cmd.vf[1] = "scale_cuda"
                        /\ loc.ff_cmd.pre = ShlexSplit(cfg.ffmpeg_pre).tokens
               /\ ~hw => /\ loc.ff_cmd.vf[1] = "format=yuv420p"
                         /\ loc.ff_cmd.vf[2] = "scale"
                         /\ loc.ff_cmd.vf[5] = "pad"
                         /\ loc.ff_cmd.pre = <<>>

C10_Witness ==
    /\ pc = "encode"
    /\ cfg.ffmpeg_pre = HwPre
    /\ loc.src.codec = <<"A","V","1">>
    /\ loc.codec = <<"a","v","1">>
    /\ loc.ff_cmd.vf[1] = "format=yuv420p"
    /\ loc.ff_cmd.pre = <<>>

\* C11: a pre-input or post-output parameter string with an unclosed quote is
\* never fatal: no ValueError leaves the attempt, and the encode is invoked
\* with the malformed parameters left out.
C11_MalformedParamsNotFatal ==
    /\ faults.exc # "shlex"
    /\ (pc = "encode" /\ ~ShlexSplit(cfg.ffmpeg_extra).ok) => loc.ff_cmd.extra = <<>>
    /\ (pc = "encode" /\ ~ShlexSplit(cfg.ffmpeg_pre).ok) => loc.ff_cmd.pre = <<>>

\* the least of a set of names in sorted order
LeastName(S) == CHOOSE d \in S : \A e \in S \ {d} : StrLess(d, e)

IsShowFolder(f) == f \in lib["tv"] \cup lib["anime"]

\* C12: for a show, the source lies in a season whose name has "01" or
\* "season 1" when there is one, and otherwise in the season-like subdirectory
\* that comes first in sorted name order, whatever the enumeration order.
C12_SeasonInSortedOrder ==
    (pc = "probe" /\ IsShowFolder(cur))
        => LET ss   == {Seasons(tree[cur])[i] : i \in 1..Len(Seasons(tree[cur]))}
               hits == {d \in ss : IsSeason1(d)}
           IN  /\ hits # {} => loc.src.path[1] \in hits
               /\ (hits = {} /\ ss # {}) => loc.src.path[1] = LeastName(ss)

\* the video files below a folder, at any depth
VideosOf(f) == {v \in tree[f].files : Lower(Suffix(FileName(v))) \in VIDEO_EXTS}

\* C13: for a movie folder the selected source is a video of maximal size, the
\* first in sorted path order among those of that size, and the selection is
\* None exactly when the folder holds no video.
C13_MovieLargestFirst ==
    (cur \in lib["movies"] /\ calls.selects > 0)
        => /\ (Working \/ result \in {"tooshort", "insufficient", "success", "failed"})
                => /\ loc.src \in VideosOf(cur)
                   /\ \A v \in VideosOf(cur) :
                         /\ v.size <= loc.src.size
                         /\ (v.size = loc.src.size /\ v # loc.src)
                               => PathLess(loc.src.path, v.path)
           /\ result = "nosrc" <=> (CallOver /\ result # "raised" /\ VideosOf(cur) = {})

C13_Witness ==
    /\ tree[cur] = TreeMovie
    /\ cur \in lib["movies"]
    /\ pc = "probe"
    /\ loc.src.path = <<<<"b", ".", "M", "K", "V">>>>
    /\ \E v \in VideosOf(cur) : v # loc.src /\ v.size = loc.src.size

\* C14: a pass that finds none of the configured roots hands no folder to
\* _process and returns normally; in daemon mode the process never exits, it
\* sleeps and goes on to the next pass.
C14_NoRootsNoWork ==
    /\ PassOver => (valid <=> \E i \in 1..Len(RootList) : rootExists[RootList[i]])
    /\ (PassOver /\ ~valid)
          => /\ handed = {}
             /\ raised = {}
             /\ pc = AfterPass(cfg.daemon, valid)
    /\ cfg.daemon => pc # "exit"

\* the first pass found no root, the movies root appeared during the sleep and
\* its folder is processed in the second pass
C14_Witness ==
    /\ cfg.daemon
    /\ pass = 2
    /\ result = "running"
    /\ cur = "m1"
    /\ \A f \in Folders : last[f] = "none"
    /\ lib["tv"] # {}
    /\ lib["anime"] # {}

\* C15: within a pass the roots are worked off in the order movies, shows,
\* extra root: once a folder of a later root has been handed to _process, every
\* folder of each earlier existing root has been handed before; and the one
\* call that is selecting, probing or encoding works on the folder handed last.
C15_FixedRootOrder ==
    (pass > 0 /\ pc # "main")
        => /\ (handed \cap lib["tv"] # {} /\ rootExists["movies"])
                => lib["movies"] \subseteq handed
           /\ handed \cap lib["anime"] # {}
                => /\ cfg.anime_path
                   /\ rootExists["movies"] => lib["movies"] \subseteq handed
                   /\ rootExists["tv"] => lib["tv"] \subseteq handed
           /\ (Working \/ pc = "guard")
                => /\ result = "running"
                   /\ cur \in handed
                   /\ cur \notin pending
                   /\ calls.encodes = 0

C15_Witness ==
    /\ pc = "probe"
    /\ cur = "t1"
    /\ handed = {"m1", "m2", "t1"}
    /\ last["m1"] = "success"
    /\ last["m2"] = "tooshort"
    /\ rootExists["anime"]
    /\ cfg.anime_path

\* C16: with force off, the call that follows an interrupted encode on a
\* folder is not skipped because of the partial file the encoder left behind.
C16_PartialNotPresent ==
    (~cfg.force /\ prior = "interrupted" /\ entry.dst = "partial" /\ ~entry.placeholder)
        => result # "skipped"

TouchFailureSwallowed ==
    calls.touch \in {"mkdir_fails", "touch_fails"}
        => /\ result \in {"nosrc", "failed"}
           /\ faults.exc = "none"
           /\ ~placeholder[cur]

\* C18: when _touch_placeholder fails, nothing is raised, the call ends
\* normally and the folder has no placeholder; and so, with force off, the next
\* call on that folder is not skipped.
C18_TouchFailureRetried ==
    /\ TouchFailureSwallowed
    /\ (~cfg.force /\ prior \in {"nosrc", "failed"} /\ ~entry.placeholder)
          => result # "skipped"

\* the folder has its backdrop and no placeholder
Clean(f) == dst[f] = "valid" /\ ~placeholder[f]

\* C19: a folder whose latest attempt ended in success has its backdrop and no
\* placeholder: this is so once the successful call is over and until the next
\* call on the folder begins, and a later call that is skipped keeps it so.
C19_SuccessWithoutPlaceholder ==
    /\ [](\A f \in Folders :
            (last[f] = "success" /\ ~(cur = f /\ result = "running")) => Clean(f))
    /\ [][\A f \in Folders :
            (Clean(f) /\ cur' = f /\ result' = "skipped") => Clean(f)']_vars

\* a forced second attempt succeeds where the first one had failed and left
\* its placeholder
C19_Witness ==
    /\ cfg.force
    /\ prior = "failed"
    /\ entry.placeholder
    /\ result = "success"
    /\ Clean(cur)

\* C20 as stated: with force on, a backdrop found by a call is never there at
\* the end of the call unless the encode of that call wrote it; in particular
\* it is gone after a call that found no source or was rejected, and no valid
\* backdrop is left after a failed encode.
C20_ForceNeverKeeps ==
    (cfg.force /\ CallOver /\ entry.dst # "absent")
        => /\ dst[cur] # "absent" => calls.encodes = 1
           /\ result \in {"nosrc", "tooshort", "insufficient"} => dst[cur] = "absent"
           /\ result = "failed" => dst[cur] # "valid"

\* C20 (amended): with force on, a backdrop found by a call is there at the end
\* of the call only if the encode of that call wrote it, or if deleting it
\* raised, in which case the call did nothing at all; it is gone after a call
\* that found no source or was rejected, and no valid backdrop is left after a
\* failed encode.
C20_ForceKeepsOnlyOnUnlinkError ==
    (cfg.force /\ CallOver /\ entry.dst # "absent")
        => /\ dst[cur] # "absent"
                => \/ calls.encodes = 1
                   \/ /\ faults.exc = "guard"
                      /\ result = "raised"
                      /\ dst[cur] = entry.dst
                      /\ calls = NoCalls
           /\ result \in {"nosrc", "tooshort", "insufficient"} => dst[cur] = "absent"
           /\ result = "failed" => dst[cur] # "valid"

C20_Witness ==
    /\ cfg.force
    /\ entry.dst = "valid"
    /\ result = "tooshort"
    /\ dst[cur] = "absent"
    /\ ~placeholder[cur]

====
